---- MODULE Spec2Model ----
(***************************************************************************)
(* Model of src/src/codec/deflate/blocking.rs: the blocking WebSocket      *)
(* codec with permessage-deflate (DeflateWriteState, DeflateReadState).    *)
(*                                                                         *)
(* A frame on the stream is a record (decoded header + payload as it is on *)
(* the wire, i.e. masked when a mask key is present).  A payload is a      *)
(* sequence of bytes 0..255.  An absent option (Option::None) is the empty *)
(* sequence for a mask key and a record with some = FALSE for a handler.   *)
(***************************************************************************)
EXTENDS Integers, Sequences, FiniteSets, TLC

VARIABLES ws, rs, stream, written, lastOp, result, rx, hs

vars == <<ws, rs, stream, written, lastOp, result, rx, hs>>

(***************************************************************************)
(* Bounds of the model.                                                    *)
(***************************************************************************)
\* longest application payload handed to send
MaxLen == 3
\* largest auto_fragment_size tried (0 = fragmentation disabled)
MaxFrag == 2
\* bytes of history the modelled DEFLATE window keeps
WindowSize == 1
\* longest payload of a frame a raw peer puts on the stream
MaxPeerLen == 1
\* length of the oversize control payload handed to ping
OversizeLen == 126
\* most headers of a handshake request or response
MaxHeaders == 2
\* most PMD offers in one Sec-WebSocket-Extensions header
MaxOffers == 2
\* most bytes the read side accumulates in fragmented_data while a fragmented
\* message is open
MaxAccum == 2

(***************************************************************************)
(* Bytes and small helpers.                                                *)
(***************************************************************************)
\* application bytes handed to the write side: "A" and 0xC3 (the lead byte
\* of a two-byte UTF-8 sequence, invalid on its own)
AppBytes == {65, 195}

RECURSIVE SeqsUpTo(_, _)
SeqsUpTo(S, n) ==
    IF n = 0 THEN {<<>>}
    ELSE LET shorter == SeqsUpTo(S, n - 1)
         IN  shorter \cup {Append(s, b) : s \in shorter, b \in S}

Payloads == SeqsUpTo(AppBytes, MaxLen)

\* the mask keys random() may return (one representative key)
MaskKeys == {<<55, 250, 33, 61>>}

NoMask == <<>>

OpCodes == {"Continue", "Text", "Binary", "Close", "Ping", "Pong"}

\* frame::OpCode::is_data
is_data(code) == code \in {"Text", "Binary", "Continue"}

RECURSIVE XorBits(_, _, _)
XorBits(a, b, n) ==
    IF n = 0 THEN 0
    ELSE (((a % 2) + (b % 2)) % 2) + 2 * XorBits(a \div 2, b \div 2, n - 1)

\* codec::apply_mask: out[i] = in[i] XOR key[i mod 4]
apply_mask(buf, mask) ==
    [i \in 1..Len(buf) |-> XorBits(buf[i], mask[((i - 1) % 4) + 1], 8)]

\* the last n elements of s
LastN(s, n) == IF Len(s) <= n THEN s ELSE SubSeq(s, Len(s) - n + 1, Len(s))

(***************************************************************************)
(* Compression engine adapters (handler.com / handler.de).  DEFLATE is     *)
(* modelled as LZ77 over a sliding window of WindowSize bytes: a byte      *)
(* found in the window is sent as its distance d (1..WindowSize), any      *)
(* other byte as a literal.  A sync flush ends the output with the empty   *)
(* stored block: its header byte 0 and then 00 00 FF FF.                   *)
(***************************************************************************)
SyncTrailer == <<0, 0, 255, 255>>

Distances(w, b) == {d \in 1..Len(w) : w[Len(w) - d + 1] = b}

Min(S) == CHOOSE x \in S : \A y \in S : x <= y

Token(w, b) == IF Distances(w, b) # {} THEN Min(Distances(w, b)) ELSE b

Slide(w, b) == LastN(Append(w, b), WindowSize)

RECURSIVE Deflate(_, _)
Deflate(w, in) ==
    IF in = <<>> THEN [out |-> <<>>, w |-> w]
    ELSE LET r == Deflate(Slide(w, Head(in)), Tail(in))
         IN  [out |-> <<Token(w, Head(in))>> \o r.out, w |-> r.w]

\* Compressor::compress(&[input], &mut out) with Z_SYNC_FLUSH
compress(com, input) ==
    LET r == Deflate(com, input)
    IN  [out |-> r.out \o <<0>> \o SyncTrailer, com |-> r.w]

RECURSIVE Inflate(_, _)
Inflate(w, in) ==
    IF in = <<>> THEN [ok |-> TRUE, out |-> <<>>, w |-> w]
    ELSE LET b == Head(in) IN
         IF b = 0
         THEN IF Len(in) >= 5 /\ SubSeq(in, 2, 5) = SyncTrailer
              THEN Inflate(w, SubSeq(in, 6, Len(in)))
              ELSE [ok |-> FALSE, out |-> <<>>, w |-> w]
         ELSE IF b \in 1..WindowSize /\ b > Len(w)
         THEN [ok |-> FALSE, out |-> <<>>, w |-> w]
         ELSE LET byte == IF b \in 1..WindowSize THEN w[Len(w) - b + 1] ELSE b
                  r == Inflate(Slide(w, byte), Tail(in))
              IN  [ok |-> r.ok, out |-> <<byte>> \o r.out, w |-> r.w]

\* DeCompressor::de_compress(&[a, b], &mut out): inflates a ++ b; the input
\* has to end on a flush point
de_compress(de, input) ==
    LET r == Inflate(de, input)
    IN  IF r.ok /\ Len(input) >= 5
           /\ SubSeq(input, Len(input) - 4, Len(input)) = <<0>> \o SyncTrailer
        THEN r
        ELSE [ok |-> FALSE, out |-> <<>>, w |-> de]

\* Compressor::reset / DeCompressor::reset: the dictionary is cleared
reset(ctx) == <<>>

(***************************************************************************)
(* Configurations.                                                         *)
(***************************************************************************)
ValidateUtf8Policy == {"Off", "Check", "FastFail"}

FrameConfigs ==
    [mask_send_frame : BOOLEAN, auto_fragment_size : 0..MaxFrag,
     merge_frame : BOOLEAN, validate_utf8 : ValidateUtf8Policy]

PMDConfigs ==
    [server_no_context_takeover : BOOLEAN, client_no_context_takeover : BOOLEAN]

NoPMD == [server_no_context_takeover |-> FALSE, client_no_context_takeover |-> FALSE]

\* Option<handler>: None, or a handler with a fresh engine and its config
NoHandler == [some |-> FALSE, ctx |-> <<>>, config |-> NoPMD]

Handler(conf) == [some |-> TRUE, ctx |-> <<>>, config |-> conf]

Handlers == {NoHandler} \cup {Handler(c) : c \in PMDConfigs}

(***************************************************************************)
(* Frames.                                                                 *)
(***************************************************************************)
\* frame::ctor_header(buf, fin, rsv1, rsv2, rsv3, mask, code, len) followed by
\* the payload bytes written after it: one frame on the stream
ctor_header(fin, rsv1, rsv2, rsv3, mask, code, payload) ==
    [fin |-> fin, rsv1 |-> rsv1, rsv2 |-> rsv2, rsv3 |-> rsv3,
     mask |-> mask, code |-> code, payload |-> payload]

\* frame::OwnedFrame::new(code, mask, data): a final frame, no reserved bits,
\* the payload masked when a key is given
OwnedFrame_new(code, mask, data) ==
    [fin |-> TRUE, rsv1 |-> FALSE, rsv2 |-> FALSE, rsv3 |-> FALSE,
     mask |-> mask, code |-> code,
     payload |-> IF mask # NoMask THEN apply_mask(data, mask) ELSE data]

\* frame::OwnedFrame::unmask: the payload in the clear, the key removed
unmask(frame) ==
    [frame EXCEPT !.mask = NoMask,
                  !.payload = IF frame.mask # NoMask
                              THEN apply_mask(frame.payload, frame.mask)
                              ELSE frame.payload]

\* frame::OwnedFrame::mask(key)
mask_frame(frame, key) ==
    [frame EXCEPT !.mask = key, !.payload = apply_mask(frame.payload, key)]

\* Vec::truncate(len - 4)
truncate4(output) == SubSeq(output, 1, Len(output) - 4)

(***************************************************************************)
(* DeflateWriteState.  A write operation returns the new write state and   *)
(* the frames it wrote, each with the chunk of application bytes it was    *)
(* made from; err is set when the operation returned Err.                  *)
(***************************************************************************)
Written(frame, chunk) == [frame |-> frame, chunk |-> chunk]

\* owned_no_context_takeover when the reset is left out
owned_never_reset(is_server, config) == FALSE

\* send_owned_frame, lines 47-48: the local role's no-context-takeover bit
owned_no_context_takeover(is_server, config) ==
    \/ is_server /\ config.server_no_context_takeover
    \/ ~is_server /\ config.client_no_context_takeover

\* send_owned_frame, lines 42-45: the frame built around the compressed
\* payload; set_fin reads the fin of the frame just built
owned_compressed_frame(frame, prev_mask, compressed) ==
    LET new == OwnedFrame_new(frame.code, prev_mask, compressed)
    IN  [new EXCEPT !.rsv1 = TRUE, !.fin = new.fin]

\* DeflateWriteState::send_owned_frame
send_owned_frame(w, frame) ==
    IF ~is_data(frame.code)
    THEN [ws |-> w, out |-> <<Written(frame, unmask(frame).payload)>>]
    ELSE LET prev_mask == frame.mask
             plain == unmask(frame)
         IN  IF w.com.some
             THEN LET c == compress(w.com.ctx, plain.payload)
                      compressed == truncate4(c.out)
                      new == owned_compressed_frame(frame, prev_mask, compressed)
                      ctx == IF owned_no_context_takeover(w.is_server, w.com.config)
                             THEN reset(c.com) ELSE c.com
                  IN  [ws |-> [w EXCEPT !.com.ctx = ctx],
                       out |-> <<Written(new, plain.payload)>>]
             ELSE [ws |-> w,
                   out |-> <<Written(IF prev_mask # NoMask
                                     THEN mask_frame(plain, prev_mask)
                                     ELSE plain, plain.payload)>>]

\* send, lines 78-85: mask_fn
mask_fn(config, key) == IF config.mask_send_frame THEN key ELSE NoMask

\* chunk_size with the fragment size off by one
chunk_size_off_by_one(config, payload) ==
    IF config.auto_fragment_size > 0 THEN config.auto_fragment_size + 1
    ELSE Len(payload)

\* send, lines 92-96
chunk_size(config, payload) ==
    IF config.auto_fragment_size > 0 THEN config.auto_fragment_size
    ELSE Len(payload)

\* slice::chunks(size), line 97: consecutive slices of size bytes, the last
\* one shorter when the length is no multiple of size
RECURSIVE chunks(_, _)
chunks(payload, size) ==
    IF Len(payload) <= size THEN <<payload>>
    ELSE <<SubSeq(payload, 1, size)>>
         \o chunks(SubSeq(payload, size + 1, Len(payload)), size)

\* send, line 100
is_fin(idx, total) == idx + 1 = total

\* send, line 117 and line 143: the opcode stamped on the frame of a chunk
chunk_opcode(code, idx) == code

\* send_no_context_takeover when the compressor is never reset
send_never_reset(is_server, config) == FALSE

\* send, lines 125-126: the local role's no-context-takeover bit
send_no_context_takeover(is_server, config) ==
    \/ is_server /\ config.server_no_context_takeover
    \/ ~is_server /\ config.client_no_context_takeover

\* send, lines 100-155: the body of the loop for the chunk at index idx
send_chunk(w, code, chunk, idx, total, key) ==
    LET fin == is_fin(idx, total)
        mask == mask_fn(w.config, key)
    IN  IF w.com.some /\ is_data(code)
        THEN LET c == compress(w.com.ctx, chunk)
                 output == truncate4(c.out)
                 frame == ctor_header(fin, TRUE, FALSE, FALSE, mask,
                                      chunk_opcode(code, idx),
                                      IF mask # NoMask
                                      THEN apply_mask(output, mask) ELSE output)
                 ctx == IF send_no_context_takeover(w.is_server, w.com.config)
                        THEN reset(c.com) ELSE c.com
             IN  [ws |-> [w EXCEPT !.com.ctx = ctx], out |-> <<Written(frame, chunk)>>]
        ELSE LET frame == ctor_header(fin, FALSE, FALSE, FALSE, mask,
                                      chunk_opcode(code, idx),
                                      IF mask # NoMask
                                      THEN apply_mask(chunk, mask) ELSE chunk)
             IN  [ws |-> w, out |-> <<Written(frame, chunk)>>]

\* send, lines 99-156: the loop over the chunks from index idx on
RECURSIVE send_loop(_, _, _, _, _)
send_loop(w, code, parts, idx, key) ==
    IF idx >= Len(parts) THEN [ws |-> w, out |-> <<>>]
    ELSE LET one == send_chunk(w, code, parts[idx + 1], idx, Len(parts), key)
             rest == send_loop(one.ws, code, parts, idx + 1, key)
         IN  [ws |-> rest.ws, out |-> one.out \o rest.out]

\* DeflateWriteState::send
send(w, code, payload, key) ==
    IF payload = <<>>
    THEN send_owned_frame(w, OwnedFrame_new(code, mask_fn(w.config, key), <<>>))
    ELSE send_loop(w, code, chunks(payload, chunk_size(w.config, payload)), 0, key)

(***************************************************************************)
(* DeflateReadState.                                                       *)
(***************************************************************************)
IsCont(b) == b >= 128 /\ b <= 191

\* simdutf8::basic::from_utf8(data).is_ok()
RECURSIVE from_utf8_ok(_)
from_utf8_ok(d) ==
    IF d = <<>> THEN TRUE
    ELSE LET b == d[1]
             n == IF b < 128 THEN 1
                  ELSE IF b >= 194 /\ b <= 223 THEN 2
                  ELSE IF b >= 224 /\ b <= 239 THEN 3
                  ELSE IF b >= 240 /\ b <= 244 THEN 4
                  ELSE 0
         IN  /\ n > 0
             /\ Len(d) >= n
             /\ \A i \in 2..n : IsCont(d[i])
             /\ (b = 224 => d[2] >= 160)
             /\ (b = 237 => d[2] <= 159)
             /\ (b = 240 => d[2] >= 144)
             /\ (b = 244 => d[2] <= 143)
             /\ from_utf8_ok(SubSeq(d, n + 1, Len(d)))

\* ValidateUtf8Policy::is_fast_fail
is_fast_fail(policy) == policy = "FastFail"

\* ValidateUtf8Policy::should_check
should_check(policy) == policy \in {"Check", "FastFail"}

NoErr == [kind |-> "None", close_code |-> 0, error |-> ""]

ProtocolError(code, error) ==
    [kind |-> "ProtocolError", close_code |-> code, error |-> error]

DeCompressFailed(msg) == [kind |-> "DeCompressFailed", close_code |-> 0, error |-> msg]

UnsupportedFrame(code) == [kind |-> "UnsupportedFrame", close_code |-> 0, error |-> code]

\* SimplifiedHeader of a frame
SimplifiedHeader(frame) == [fin |-> frame.fin, rsv1 |-> frame.rsv1, code |-> frame.code]

NoHeader == [fin |-> FALSE, rsv1 |-> FALSE, code |-> "None"]

\* the result of a step: status is "Ok" (the call returned Ok((header, data))),
\* "Err" (it returned Err(err)) or "Continue" (the loop goes on to read the
\* next frame)
Outcome(r, status, header, data, err) ==
    [rs |-> r, status |-> status, header |-> header, data |-> data, err |-> err]

\* FrameReadState::receive (self.read_state.receive): parses one frame; it
\* refuses reserved bits other than RSV1, a control frame that is not final
\* and a control payload above 125 bytes, and hands the payload out unmasked
read_state_receive(r, frame) ==
    IF frame.rsv2 \/ frame.rsv3
    THEN Outcome(r, "Err", NoHeader, <<>>, ProtocolError(1002, "InvalidRsv"))
    ELSE IF ~is_data(frame.code) /\ (~frame.fin \/ Len(frame.payload) > 125)
    THEN Outcome(r, "Err", NoHeader, <<>>, ProtocolError(1002, "InvalidControlFrame"))
    ELSE Outcome(r, "Ok", SimplifiedHeader(frame), unmask(frame).payload, NoErr)

\* receive_one, lines 186-187: the local role's no-context-takeover bit
receive_no_context_takeover(is_server, config) ==
    \/ is_server /\ config.server_no_context_takeover
    \/ ~is_server /\ config.client_no_context_takeover

\* is_compressed_control when only Close frames are tested
is_compressed_control_close_only(header) == header.rsv1 /\ header.code = "Close"

\* is_compressed_control when the test is left out
is_compressed_control_never(header) == FALSE

\* receive_one, lines 170-175: a compressed frame that is no data frame
is_compressed_control(header) == header.rsv1 /\ ~is_data(header.code)

\* receive_one when a frame with RSV1 is passed on as it is where no inflater
\* is configured
receive_one_without_inflater_test(r, frame) ==
    LET got == read_state_receive(r, frame)
        header == got.header
        data == got.data
        compressed == header.rsv1
        is_data_frame == is_data(header.code)
    IN  IF got.status = "Err" THEN got
        ELSE IF is_compressed_control(header)
        THEN Outcome(r, "Err", NoHeader, <<>>,
                     ProtocolError(1002, "CompressedControlFrame"))
        ELSE IF ~is_data_frame \/ ~compressed
        THEN Outcome(r, "Ok", header, data, NoErr)
        ELSE IF r.de.some
        THEN LET d == de_compress(r.de.ctx, data \o SyncTrailer)
                 ctx == IF receive_no_context_takeover(r.is_server, r.de.config)
                        THEN reset(d.w) ELSE d.w
             IN  IF ~d.ok
                 THEN Outcome(r, "Err", NoHeader, <<>>, DeCompressFailed("inflate"))
                 ELSE Outcome([r EXCEPT !.de.ctx = ctx], "Ok",
                              [header EXCEPT !.rsv1 = FALSE], d.out, NoErr)
        ELSE Outcome(r, "Ok", [header EXCEPT !.rsv1 = FALSE], data, NoErr)

\* DeflateReadState::receive_one
receive_one(r, frame) ==
    LET got == read_state_receive(r, frame)
        header == got.header
        data == got.data
        compressed == header.rsv1
        is_data_frame == is_data(header.code)
    IN  IF got.status = "Err" THEN got
        ELSE IF is_compressed_control(header)
        THEN Outcome(r, "Err", NoHeader, <<>>,
                     ProtocolError(1002, "CompressedControlFrame"))
        ELSE IF ~is_data_frame \/ ~compressed
        THEN Outcome(r, "Ok", header, data, NoErr)
        ELSE IF r.de.some
        THEN LET d == de_compress(r.de.ctx, data \o SyncTrailer)
                 ctx == IF receive_no_context_takeover(r.is_server, r.de.config)
                        THEN reset(d.w) ELSE d.w
             IN  IF ~d.ok
                 THEN Outcome(r, "Err", NoHeader, <<>>, DeCompressFailed("inflate"))
                 ELSE Outcome([r EXCEPT !.de.ctx = ctx], "Ok",
                              [header EXCEPT !.rsv1 = FALSE], d.out, NoErr)
        ELSE Outcome(r, "Err", NoHeader, <<>>,
                     DeCompressFailed("extension not enabled but got compressed frame"))

\* receive, lines 225-229: a Continue frame with no fragmented message open
miss_initial_fragment(r) == ~r.fragmented

\* not_continue_after_fragmented when the test is left out
not_continue_never(r) == FALSE

\* receive, lines 242-247: a new data frame while a fragmented message is open
not_continue_after_fragmented(r) == r.fragmented

\* DeflateReadState::receive, lines 217-283: one turn of the loop, on the
\* frame the stream delivers
receive(r0, frame) ==
    LET one == receive_one(r0, frame)
        r == one.rs
        header == one.header
        data == one.data
    IN  IF one.status = "Err" THEN one
        ELSE IF ~r.config.merge_frame
        THEN LET r1 == [r EXCEPT !.fragmented_data = data]
             IN  Outcome(r1, "Ok", header, r1.fragmented_data, NoErr)
        ELSE IF header.code = "Continue"
        THEN IF miss_initial_fragment(r)
             THEN Outcome(r, "Err", NoHeader, <<>>,
                          ProtocolError(1002, "MissInitialFragmentedFrame"))
             ELSE LET r1 == [r EXCEPT !.fragmented_data = @ \o data]
                  IN  IF header.fin
                      THEN Outcome([r1 EXCEPT !.fragmented = FALSE], "Ok",
                                   [header EXCEPT !.code = r.fragmented_type],
                                   r1.fragmented_data, NoErr)
                      ELSE Outcome(r1, "Continue", NoHeader, <<>>, NoErr)
        ELSE IF header.code \in {"Text", "Binary"}
        THEN IF not_continue_after_fragmented(r)
             THEN Outcome(r, "Err", NoHeader, <<>>,
                          ProtocolError(1002, "NotContinueFrameAfterFragmented"))
             ELSE IF ~header.fin
             THEN LET r1 == [r EXCEPT !.fragmented = TRUE,
                                      !.fragmented_type = header.code]
                  IN  IF /\ header.code = "Text"
                         /\ is_fast_fail(r.config.validate_utf8)
                         /\ ~from_utf8_ok(data)
                      THEN Outcome(r1, "Err", NoHeader, <<>>,
                                   ProtocolError(1007, "InvalidUtf8"))
                      ELSE Outcome([r1 EXCEPT !.fragmented_data = data],
                                   "Continue", NoHeader, <<>>, NoErr)
             ELSE IF /\ header.code = "Text"
                     /\ should_check(r.config.validate_utf8)
                     /\ ~from_utf8_ok(data)
                  THEN Outcome(r, "Err", NoHeader, <<>>,
                               ProtocolError(1007, "InvalidUtf8"))
                  ELSE Outcome([r EXCEPT !.fragmented_data = data], "Ok",
                               header, data, NoErr)
        ELSE IF header.code \in {"Close", "Ping", "Pong"}
        THEN Outcome([r EXCEPT !.control_buf = data], "Ok", header, data, NoErr)
        ELSE Outcome(r, "Err", NoHeader, <<>>, UnsupportedFrame(header.code))

\* receive_mut when merge_frame is not looked at
receive_mut_merging(r0, frame) ==
    LET o == receive([r0 EXCEPT !.config.merge_frame = TRUE], frame)
    IN  [o EXCEPT !.rs.config = r0.config]

\* receive_mut when a control payload is kept in the accumulator
receive_mut_control_in_accumulator(r0, frame) ==
    LET o == receive(r0, frame)
    IN  IF /\ r0.config.merge_frame
           /\ o.status = "Ok"
           /\ o.header.code \in {"Close", "Ping", "Pong"}
        THEN [o EXCEPT !.rs.fragmented_data = o.data]
        ELSE o

\* DeflateReadState::receive_mut, lines 293-359: one turn of the loop, on the
\* frame the stream delivers
receive_mut(r0, frame) ==
    LET one == receive_one(r0, frame)
        r == one.rs
        header == one.header
        data == one.data
    IN  IF one.status = "Err" THEN one
        ELSE IF ~r.config.merge_frame
        THEN LET r1 == [r EXCEPT !.fragmented_data = data]
             IN  Outcome(r1, "Ok", header, r1.fragmented_data, NoErr)
        ELSE IF header.code = "Continue"
        THEN IF miss_initial_fragment(r)
             THEN Outcome(r, "Err", NoHeader, <<>>,
                          ProtocolError(1002, "MissInitialFragmentedFrame"))
             ELSE LET r1 == [r EXCEPT !.fragmented_data = @ \o data]
                  IN  IF header.fin
                      THEN Outcome([r1 EXCEPT !.fragmented = FALSE], "Ok",
                                   [header EXCEPT !.code = r.fragmented_type],
                                   r1.fragmented_data, NoErr)
                      ELSE Outcome(r1, "Continue", NoHeader, <<>>, NoErr)
        ELSE IF header.code \in {"Text", "Binary"}
        THEN IF not_continue_after_fragmented(r)
             THEN Outcome(r, "Err", NoHeader, <<>>,
                          ProtocolError(1002, "NotContinueFrameAfterFragmented"))
             ELSE IF ~header.fin
             THEN LET r1 == [r EXCEPT !.fragmented = TRUE,
                                      !.fragmented_type = header.code]
                  IN  IF /\ header.code = "Text"
                         /\ is_fast_fail(r.config.validate_utf8)
                         /\ ~from_utf8_ok(data)
                      THEN Outcome(r1, "Err", NoHeader, <<>>,
                                   ProtocolError(1007, "InvalidUtf8"))
                      ELSE Outcome([r1 EXCEPT !.fragmented_data = data],
                                   "Continue", NoHeader, <<>>, NoErr)
             ELSE IF /\ header.code = "Text"
                     /\ should_check(r.config.validate_utf8)
                     /\ ~from_utf8_ok(data)
                  THEN Outcome(r, "Err", NoHeader, <<>>,
                               ProtocolError(1007, "InvalidUtf8"))
                  ELSE Outcome([r EXCEPT !.fragmented_data = data], "Ok",
                               header, data, NoErr)
        ELSE IF header.code \in {"Close", "Ping", "Pong"}
        THEN Outcome([r EXCEPT !.control_buf = data], "Ok", header, data, NoErr)
        ELSE Outcome(r, "Err", NoHeader, <<>>, UnsupportedFrame(header.code))

(***************************************************************************)
(* State.                                                                  *)
(*   ws       the DeflateWriteState of one endpoint                        *)
(*   rs       the DeflateReadState that reads what is on the stream        *)
(*   stream   the frames written and not yet read, oldest first            *)
(*   written  what the last write operation wrote: its frames, each with   *)
(*            the chunk of application bytes it carries                    *)
(*   lastOp   the last write operation and its arguments                   *)
(*   result   what the last turn of receive / receive_mut came to          *)
(*   rx       the frame that turn read: the function that read it, the     *)
(*            frame as it was on the wire, its index among the frames of   *)
(*            lastOp (0 for a frame of a raw peer), the fragmented flag as *)
(*            it was before the frame, and whether the frame was read by a *)
(*            call already in its loop (in_call) or by a new call; and msg, *)
(*            the fragmented message the frames on the wire are spelling   *)
(*   hs       the handshake the codec was constructed from by factory or   *)
(*            check_fn, and what the construction came to                  *)
(***************************************************************************)
NoOp == [op |-> "none", code |-> "None", payload |-> <<>>, fin |-> TRUE, mask |-> NoMask]

NoResult == [status |-> "None", header |-> NoHeader, data |-> <<>>, err |-> NoErr]

NoFrame == ctor_header(FALSE, FALSE, FALSE, FALSE, NoMask, "None", <<>>)

\* no fragmented message is under way on the wire
NoMsg == [open |-> FALSE, done |-> FALSE, code |-> "None", data |-> <<>>]

NoHandshake == [fn |-> "none", key_ok |-> FALSE, headers |-> <<>>,
                status |-> "None", err |-> NoErr]

NoRx == [fn |-> "none", frame |-> NoFrame, idx |-> 0, fragmented |-> FALSE,
         in_call |-> FALSE, msg |-> NoMsg]

\* The fragmented message the frames on the wire spell, told from the frames
\* alone (one is what receive_one made of the frame): an initial Text/Binary
\* frame with fin = false, read while the reader has no message open, opens
\* it, Continue frames extend it, a Continue frame with fin = true completes
\* it (done), control frames in between leave it alone; any other frame, or a
\* frame receive_one refuses, ends it.
Tracked(m, one) ==
    LET h == one.header
        cur == IF m.done THEN NoMsg ELSE m
    IN  IF one.status # "Ok" THEN NoMsg
        ELSE IF h.code \in {"Close", "Ping", "Pong"} THEN cur
        ELSE IF h.code \in {"Text", "Binary"}
        THEN IF ~h.fin /\ ~cur.open /\ ~one.rs.fragmented
             THEN [open |-> TRUE, done |-> FALSE, code |-> h.code, data |-> one.data]
             ELSE NoMsg
        ELSE IF h.code = "Continue" /\ cur.open
        THEN [open |-> ~h.fin, done |-> h.fin, code |-> cur.code,
              data |-> cur.data \o one.data]
        ELSE NoMsg

\* DeflateWriteState::with_config(frame_config, pmd_config, is_server)
WriteState_with_config(config, handler, is_server) ==
    [config |-> config, com |-> handler, is_server |-> is_server]

\* DeflateReadState::with_config(frame_config, pmd_config, is_server)
ReadState_with_config(config, handler, is_server) ==
    [config |-> config, de |-> handler, is_server |-> is_server,
     fragmented |-> FALSE, fragmented_type |-> "Binary",
     fragmented_data |-> <<>>, control_buf |-> <<>>]

InCall == result.status = "Continue"

\* nothing is remembered of the operations before
Forgotten == written = <<>> /\ lastOp = NoOp /\ rx.frame = NoFrame

\* a write operation that came to r: its frames go onto the stream
Wrote(op, r) ==
    /\ stream = <<>>
    /\ Forgotten
    /\ ws' = r.ws
    /\ stream' = [i \in 1..Len(r.out) |-> r.out[i].frame]
    /\ written' = r.out
    /\ lastOp' = op
    /\ UNCHANGED <<rs, result, rx, hs>>

SendOp(code, payload, key) ==
    [op |-> "send", code |-> code, payload |-> payload, fin |-> TRUE,
     mask |-> mask_fn(ws.config, key)]

\* DeflateCodec::send / DeflateSend::send
Send(code, payload, key) ==
    Wrote(SendOp(code, payload, key), send(ws, code, payload, key))

\* DeflateCodec::text / DeflateSend::text: the argument is a &str
Text(payload, key) ==
    /\ from_utf8_ok(payload)
    /\ Wrote(SendOp("Text", payload, key), send(ws, "Text", payload, key))

\* DeflateCodec::binary / DeflateSend::binary
Binary(payload, key) ==
    Wrote(SendOp("Binary", payload, key), send(ws, "Binary", payload, key))

\* DeflateCodec::ping / DeflateSend::ping
Ping(payload, key) ==
    Wrote(SendOp("Ping", payload, key), send(ws, "Ping", payload, key))

\* DeflateCodec::pong / DeflateSend::pong
Pong(payload, key) ==
    Wrote(SendOp("Pong", payload, key), send(ws, "Pong", payload, key))

\* u16::to_be_bytes
to_be_bytes(code) == <<code \div 256, code % 256>>

\* DeflateCodec::close / DeflateSend::close
Close(code, msg, key) ==
    LET data == to_be_bytes(code) \o msg
    IN  Wrote(SendOp("Close", data, key), send(ws, "Close", data, key))

\* DeflateCodec::send_owned_frame / DeflateSend::send_owned_frame
SendOwnedFrame(frame) ==
    Wrote([op |-> "send_owned_frame", code |-> frame.code,
           payload |-> unmask(frame).payload, fin |-> frame.fin,
           mask |-> frame.mask],
          send_owned_frame(ws, frame))

\* DeflateCodec::flush / DeflateSend::flush: what was written leaves for a
\* peer that is not modelled; flush itself writes no frame
Flush ==
    /\ stream # <<>>
    /\ stream' = <<>>
    /\ written' = <<>>
    /\ lastOp' = NoOp
    /\ UNCHANGED <<ws, rs, result, rx, hs>>

\* Between two operations: the caller lets go of the slice the last receive
\* returned, and the history variables (written, lastOp, result, rx) forget
\* the operations before.  A receive blocked in its loop stays blocked, and
\* a fragmented message under way on the wire stays under way.
Release ==
    /\ stream = <<>>
    /\ ~Forgotten
    /\ written' = <<>>
    /\ lastOp' = NoOp
    /\ result' = IF InCall THEN result ELSE NoResult
    /\ rx' = [NoRx EXCEPT !.fn = IF InCall THEN rx.fn ELSE "none",
                           !.msg = IF rx.msg.done THEN NoMsg ELSE rx.msg]
    /\ UNCHANGED <<ws, rs, stream, hs>>

\* one turn of receive / receive_mut (fn) on frame came to o
Received(fn, o, frame, idx) ==
    /\ InCall => rx.fn = fn
    /\ o.rs.fragmented => Len(o.rs.fragmented_data) <= MaxAccum
    /\ Len(rx.msg.data) < MaxAccum
    /\ rs' = o.rs
    /\ result' = [status |-> o.status, header |-> o.header, data |-> o.data,
                  err |-> o.err]
    /\ rx' = [fn |-> fn, frame |-> frame, idx |-> idx,
              fragmented |-> rs.fragmented, in_call |-> InCall,
              msg |-> IF rs.config.merge_frame
                      THEN Tracked(rx.msg, receive_one(rs, frame))
                      ELSE NoMsg]
    /\ UNCHANGED <<ws, written, lastOp, hs>>

\* DeflateCodec::receive / DeflateRecv::receive reads the next frame
Receive ==
    /\ stream # <<>>
    /\ Received("receive", receive(rs, Head(stream)), Head(stream),
                Len(written) - Len(stream) + 1)
    /\ stream' = Tail(stream)

\* DeflateRecv::receive_mut reads the next frame
ReceiveMut ==
    /\ stream # <<>>
    /\ Received("receive_mut", receive_mut(rs, Head(stream)), Head(stream),
                Len(written) - Len(stream) + 1)
    /\ stream' = Tail(stream)

\* receive reads a frame a raw peer wrote
PeerReceive(frame) ==
    /\ stream = <<>>
    /\ Forgotten
    /\ Received("receive", receive(rs, frame), frame, 0)
    /\ UNCHANGED stream

\* receive_mut reads a frame a raw peer wrote
PeerReceiveMut(frame) ==
    /\ stream = <<>>
    /\ Forgotten
    /\ Received("receive_mut", receive_mut(rs, frame), frame, 0)
    /\ UNCHANGED stream

(***************************************************************************)
(* Specifications.                                                         *)
(***************************************************************************)
FrameConfig(mask, size, merge, policy) ==
    [mask_send_frame |-> mask, auto_fragment_size |-> size,
     merge_frame |-> merge, validate_utf8 |-> policy]

IdleWriteState == WriteState_with_config(FrameConfig(FALSE, 0, TRUE, "Off"), NoHandler, TRUE)

IdleReadState == ReadState_with_config(FrameConfig(FALSE, 0, TRUE, "Off"), NoHandler, FALSE)

CloseCodes == {1000, 1002}

\* a payload above the limit of a control frame
OversizePayload == [i \in 1..OversizeLen |-> 65]

\* the frames a caller hands to send_owned_frame
OwnedFrames ==
    {[OwnedFrame_new(code, mask, data) EXCEPT !.fin = fin] :
        code \in OpCodes, mask \in {NoMask} \cup MaskKeys,
        data \in Payloads, fin \in BOOLEAN}

\* the compressed payloads a raw peer sends: what some compressor state
\* makes of some chunk
PeerCompressed ==
    {truncate4(compress(w, p).out) :
        w \in SeqsUpTo(AppBytes, WindowSize), p \in SeqsUpTo(AppBytes, MaxPeerLen)}

\* the whole data messages a caller hands to send_owned_frame
OwnedMessages == {f \in OwnedFrames : f.code \in {"Text", "Binary"} /\ f.fin}

\* a UTF-8 continuation byte: 0xC3 0xA9 is one character, split over two frames
TailByte == 169

\* the payloads of the control frames a raw peer sends
PeerControlPayloads == {<<>>, <<65>>}

\* the frames a raw peer puts on the stream: data frames, plain or with RSV1
\* and a compressed payload; a final Continue frame that ends a character; final control frames, with or without RSV1; and
\* control frames that are not final
PeerFrames ==
    {ctor_header(fin, FALSE, FALSE, FALSE, NoMask, code, p) :
        fin \in BOOLEAN, code \in {"Continue", "Text", "Binary"},
        p \in SeqsUpTo(AppBytes, MaxPeerLen)}
    \cup
    {ctor_header(TRUE, FALSE, FALSE, FALSE, NoMask, "Continue", <<TailByte>>)}
    \cup
    {ctor_header(fin, TRUE, FALSE, FALSE, NoMask, code, p) :
        fin \in BOOLEAN, code \in {"Continue", "Text", "Binary"},
        p \in PeerCompressed}
    \cup
    {ctor_header(TRUE, rsv1, FALSE, FALSE, NoMask, code, p) :
        rsv1 \in BOOLEAN, code \in {"Close", "Ping", "Pong"},
        p \in PeerControlPayloads}
    \cup
    {ctor_header(FALSE, FALSE, FALSE, FALSE, NoMask, code, <<>>) :
        code \in {"Close", "Ping", "Pong"}}

(***************************************************************************)
(* Construction from a handshake: DeflateCodec::factory and check_fn.      *)
(***************************************************************************)
\* FrameConfig::default()
DefaultFrameConfig == FrameConfig(TRUE, 0, TRUE, "Check")

ExtensionsHeader == "sec-websocket-extensions"

HeaderNames == {"Sec-WebSocket-Extensions", "sec-websocket-extensions", "Host"}

\* str::to_lowercase on the header names
to_lowercase(name) ==
    CASE name = "Sec-WebSocket-Extensions" -> "sec-websocket-extensions"
      [] name = "Host" -> "host"
      [] OTHER -> name

\* the PMD offers PMDConfig::parse_str finds in a header value: one with the
\* smaller window on the client side, one with it on the server side
PMDOffers ==
    {[server_no_context_takeover |-> FALSE, client_no_context_takeover |-> FALSE,
      server_max_window_bits |-> 15, client_max_window_bits |-> 9],
     [server_no_context_takeover |-> TRUE, client_no_context_takeover |-> FALSE,
      server_max_window_bits |-> 10, client_max_window_bits |-> 15]}

\* A header value, told by what the helpers do with it: readable says whether
\* v.to_str() is Ok, parse is what PMDConfig::parse_str makes of the string
\* (Ok with the list of offers, or Err).
HeaderValues ==
    {[readable |-> FALSE, parse |-> [ok |-> FALSE, confs |-> <<>>]],
     [readable |-> TRUE, parse |-> [ok |-> FALSE, confs |-> <<>>]]}
    \cup
    {[readable |-> TRUE, parse |-> [ok |-> TRUE, confs |-> c]] :
        c \in SeqsUpTo(PMDOffers, MaxOffers)}

Headers ==
    {[name |-> n, value |-> v] :
        n \in HeaderNames \ {"Host"}, v \in HeaderValues}
    \cup
    {[name |-> "Host", value |-> [readable |-> TRUE,
                                  parse |-> [ok |-> FALSE, confs |-> <<>>]]]}

HandShakeFailed == [kind |-> "HandShakeFailed", close_code |-> 0, error |-> "parse"]

\* the error standard_handshake_resp_check returns
RespCheckFailed == [kind |-> "HandShakeFailed", close_code |-> 0, error |-> "resp check"]

\* factory, lines 391-403 (check_fn, lines 423-435): the offers of every
\* Sec-WebSocket-Extensions header, appended in the order of the headers; the
\* first value that does not parse ends the construction
RECURSIVE collect_pmd_confs(_, _)
collect_pmd_confs(headers, pmd_confs) ==
    IF headers = <<>> THEN [ok |-> TRUE, confs |-> pmd_confs]
    ELSE LET k == Head(headers).name
             v == Head(headers).value
         IN  IF to_lowercase(k) = ExtensionsHeader /\ v.readable
             THEN IF v.parse.ok
                  THEN collect_pmd_confs(Tail(headers), pmd_confs \o v.parse.confs)
                  ELSE [ok |-> FALSE, confs |-> <<>>]
             ELSE collect_pmd_confs(Tail(headers), pmd_confs)

NoConf == [some |-> FALSE, conf |-> NoPMD]

\* pop when the first offer is taken
pop_first(pmd_confs) ==
    IF pmd_confs = <<>> THEN NoConf
    ELSE [some |-> TRUE, conf |-> pmd_confs[1]]

\* factory, line 404 (check_fn, line 436): pmd_confs.pop()
pop(pmd_confs) ==
    IF pmd_confs = <<>> THEN NoConf
    ELSE [some |-> TRUE, conf |-> pmd_confs[Len(pmd_confs)]]

\* factory, lines 405-409 (check_fn, lines 437-441): both window sizes become
\* the smaller of the two
fold_window_bits(pmd_conf) ==
    IF ~pmd_conf.some THEN pmd_conf
    ELSE LET conf == pmd_conf.conf
             min == IF conf.client_max_window_bits <= conf.server_max_window_bits
                    THEN conf.client_max_window_bits
                    ELSE conf.server_max_window_bits
         IN  [pmd_conf EXCEPT !.conf.client_max_window_bits = min,
                              !.conf.server_max_window_bits = min]

\* DeflateCodec::new
DeflateCodec_new(frame_config, pmd_conf, is_server) ==
    LET handler == IF pmd_conf.some THEN Handler(pmd_conf.conf) ELSE NoHandler
    IN  [read_state |-> ReadState_with_config(frame_config, handler, is_server),
         write_state |-> WriteState_with_config(frame_config, handler, is_server)]

NoCodec == [read_state |-> IdleReadState, write_state |-> IdleWriteState]

\* DeflateCodec::factory
factory(headers) ==
    LET got == collect_pmd_confs(headers, <<>>)
        pmd_conf == fold_window_bits(pop(got.confs))
        frame_conf == [DefaultFrameConfig EXCEPT !.mask_send_frame = FALSE]
    IN  IF ~got.ok
        THEN [status |-> "Err", err |-> HandShakeFailed, codec |-> NoCodec]
        ELSE [status |-> "Ok", err |-> NoErr,
              codec |-> DeflateCodec_new(frame_conf, pmd_conf, TRUE)]

\* DeflateCodec::check_fn; key_ok says whether standard_handshake_resp_check
\* accepts the response for the key
check_fn(key_ok, headers) ==
    LET got == collect_pmd_confs(headers, <<>>)
        pmd_conf == fold_window_bits(pop(got.confs))
    IN  IF ~key_ok
        THEN [status |-> "Err", err |-> RespCheckFailed, codec |-> NoCodec]
        ELSE IF ~got.ok
        THEN [status |-> "Err", err |-> HandShakeFailed, codec |-> NoCodec]
        ELSE [status |-> "Ok", err |-> NoErr,
              codec |-> DeflateCodec_new(DefaultFrameConfig, pmd_conf, FALSE)]

\* a construction that came to o
Constructed(fn, key_ok, headers, o) ==
    /\ hs = NoHandshake
    /\ hs' = [fn |-> fn, key_ok |-> key_ok, headers |-> headers,
              status |-> o.status, err |-> o.err]
    /\ ws' = o.codec.write_state
    /\ rs' = o.codec.read_state
    /\ UNCHANGED <<stream, written, lastOp, result, rx>>

Factory(headers) == Constructed("factory", TRUE, headers, factory(headers))

CheckFn(key_ok, headers) ==
    Constructed("check_fn", key_ok, headers, check_fn(key_ok, headers))

\* --- the write side alone: every operation of DeflateWriteState ---------
InitWrite ==
    /\ ws \in {WriteState_with_config(FrameConfig(mask, size, TRUE, "Off"), h, srv) :
                  mask \in BOOLEAN, size \in 0..MaxFrag, h \in Handlers,
                  srv \in BOOLEAN}
    /\ rs = IdleReadState
    /\ stream = <<>>
    /\ written = <<>>
    /\ lastOp = NoOp
    /\ result = NoResult
    /\ rx = NoRx
    /\ hs = NoHandshake

NextWrite ==
    \/ \E code \in OpCodes, payload \in Payloads, key \in MaskKeys :
          Send(code, payload, key)
    \/ \E payload \in Payloads, key \in MaskKeys : Text(payload, key)
    \/ \E payload \in Payloads, key \in MaskKeys : Binary(payload, key)
    \/ \E payload \in Payloads, key \in MaskKeys : Ping(payload, key)
    \/ \E key \in MaskKeys :
          \* the oversize payload is tried where it goes out in one frame
          /\ ws.config.auto_fragment_size = 0
          /\ Ping(OversizePayload, key)
    \/ \E payload \in Payloads, key \in MaskKeys : Pong(payload, key)
    \/ \E code \in CloseCodes, msg \in Payloads, key \in MaskKeys :
          Close(code, msg, key)
    \/ \E frame \in OwnedFrames : SendOwnedFrame(frame)
    \/ Flush

SpecWrite == InitWrite /\ [][NextWrite]_vars

\* --- the read side alone, fed by a raw peer ------------------------------
InitRead ==
    /\ ws = IdleWriteState
    /\ rs \in {ReadState_with_config(FrameConfig(FALSE, 0, merge, policy), h, srv) :
                  merge \in BOOLEAN, policy \in ValidateUtf8Policy,
                  h \in Handlers, srv \in BOOLEAN}
    /\ stream = <<>>
    /\ written = <<>>
    /\ lastOp = NoOp
    /\ result = NoResult
    /\ rx = NoRx
    /\ hs = NoHandshake

NextRead ==
    \/ \E frame \in PeerFrames : PeerReceive(frame)
    \/ \E frame \in PeerFrames : PeerReceiveMut(frame)
    \/ Release

SpecRead == InitRead /\ [][NextRead]_vars

\* --- two endpoints built from one negotiated PMD configuration: the write
\* --- state of one and the read state of the other (DeflateCodec::new)
Init ==
    /\ \E srv \in BOOLEAN, size \in 0..MaxFrag, merge \in BOOLEAN,
          policy \in ValidateUtf8Policy, h \in Handlers :
          /\ ws = WriteState_with_config(FrameConfig(~srv, size, merge, policy), h, srv)
          /\ rs = ReadState_with_config(FrameConfig(srv, size, merge, policy), h, ~srv)
    /\ stream = <<>>
    /\ written = <<>>
    /\ lastOp = NoOp
    /\ result = NoResult
    /\ rx = NoRx
    /\ hs = NoHandshake

Next ==
    \/ \E code \in {"Text", "Binary"}, payload \in Payloads, key \in MaskKeys :
          Send(code, payload, key)
    \/ \E frame \in OwnedMessages : SendOwnedFrame(frame)
    \/ Receive
    \/ ReceiveMut
    \/ Release

Spec == Init /\ [][Next]_vars

\* --- construction: a codec made by factory or check_fn --------------------
InitHandshake ==
    /\ ws = IdleWriteState
    /\ rs = IdleReadState
    /\ stream = <<>>
    /\ written = <<>>
    /\ lastOp = NoOp
    /\ result = NoResult
    /\ rx = NoRx
    /\ hs = NoHandshake

NextHandshake ==
    \/ /\ hs = NoHandshake
       /\ \E headers \in SeqsUpTo(Headers, MaxHeaders) : Factory(headers)
    \/ /\ hs = NoHandshake
       /\ \E key_ok \in BOOLEAN, headers \in SeqsUpTo(Headers, MaxHeaders) :
             CheckFn(key_ok, headers)

SpecHandshake == InitHandshake /\ [][NextHandshake]_vars

(***************************************************************************)
(* Properties of the write side (SpecWrite).                               *)
(***************************************************************************)
FrameOf(k) == written[k].frame

\* the last write operation was send(code, payload) with a data message opcode,
\* fragmentation on and a payload longer than one fragment
FragmentedSend ==
    /\ lastOp.op = "send"
    /\ lastOp.code \in {"Text", "Binary"}
    /\ ws.config.auto_fragment_size > 0
    /\ Len(lastOp.payload) > ws.config.auto_fragment_size

\* C1: a send of a Text/Binary payload longer than auto_fragment_size > 0
\* writes, in order, one frame with the given opcode and fin = false, then
\* Continue frames with fin = false, then a last Continue frame with fin = true.
C1_FragmentOpcodes ==
    FragmentedSend =>
        /\ Len(written) >= 2
        /\ FrameOf(1).code = lastOp.code /\ ~FrameOf(1).fin
        /\ \A k \in 2..(Len(written) - 1) :
              FrameOf(k).code = "Continue" /\ ~FrameOf(k).fin
        /\ FrameOf(Len(written)).code = "Continue" /\ FrameOf(Len(written)).fin

\* C4: send with an empty payload writes exactly one frame, with fin = true,
\* no payload byte and RSV1 clear, for every opcode and configuration.
C4_EmptyPayloadPlain ==
    (lastOp.op = "send" /\ lastOp.payload = <<>>) =>
        /\ Len(written) = 1
        /\ FrameOf(1).fin
        /\ FrameOf(1).payload = <<>>
        /\ ~FrameOf(1).rsv1

\* C5: of the frames send / ping / pong / close write: with compression on, a
\* data frame made from a non-empty chunk has RSV1 set; a control frame has
\* RSV1 clear and fin = true.
C5_Rsv1AndControlFin ==
    lastOp.op = "send" =>
        \A k \in 1..Len(written) :
            /\ (ws.com.some /\ is_data(FrameOf(k).code) /\ written[k].chunk # <<>>)
                  => FrameOf(k).rsv1
            /\ ~is_data(FrameOf(k).code) => (~FrameOf(k).rsv1 /\ FrameOf(k).fin)

CeilDiv(a, n) == (a + n - 1) \div n

MinOf(a, b) == IF a <= b THEN a ELSE b

\* the application bytes frame k carries, read back from the wire where the
\* frame alone tells: an uncompressed frame, or a compressed one made by a
\* compressor that starts every chunk with an empty window
CarriedOnWire(k, chunk) ==
    LET f == FrameOf(k) IN
    /\ ~f.rsv1 => unmask(f).payload = chunk
    /\ (f.rsv1 /\ send_no_context_takeover(ws.is_server, ws.com.config))
          => de_compress(<<>>, unmask(f).payload \o SyncTrailer).out = chunk

\* C6: a send of a non-empty payload P with auto_fragment_size = n > 0 writes
\* exactly ceil(len(P)/n) frames, the k-th carrying P[(k-1)n .. min(kn, len(P))),
\* with fin = true on the last frame only; with n = 0 it writes one frame with
\* fin = true carrying P.
C6_FragmentCount ==
    (lastOp.op = "send" /\ lastOp.payload # <<>>) =>
        LET P == lastOp.payload
            n == ws.config.auto_fragment_size
        IN  IF n > 0
            THEN /\ Len(written) = CeilDiv(Len(P), n)
                 /\ \A k \in 1..Len(written) :
                       LET chunk == SubSeq(P, (k - 1) * n + 1, MinOf(k * n, Len(P)))
                       IN  /\ written[k].chunk = chunk
                           /\ CarriedOnWire(k, chunk)
                           /\ FrameOf(k).fin <=> (k = Len(written))
            ELSE /\ Len(written) = 1
                 /\ FrameOf(1).fin
                 /\ written[1].chunk = P
                 /\ CarriedOnWire(1, P)

\* a payload of three bytes sent in fragments of two: a full and a short frame
C6_Witness ==
    /\ lastOp.op = "send"
    /\ Len(lastOp.payload) = 3
    /\ ws.config.auto_fragment_size = 2
    /\ Len(written) = 2
    /\ ws.com.some
    /\ ws.config.mask_send_frame

(***************************************************************************)
(* Properties of a write state and the read state of its peer (Spec).      *)
(***************************************************************************)
\* the turn of receive just taken read the last frame of the last send
LastFrameRead == lastOp.op = "send" /\ rx.idx > 0 /\ rx.idx = Len(written)

\* both no-context-takeover bits of the negotiated configuration agree
SymmetricPMD ==
    ws.com.some =>
        ws.com.config.client_no_context_takeover
            = ws.com.config.server_no_context_takeover

\* the payload of the last send passes the UTF-8 validation of the reader
PassesValidation ==
    (lastOp.code = "Text" /\ should_check(rs.config.validate_utf8))
        => from_utf8_ok(lastOp.payload)

\* C2: for every auto_fragment_size n > 0 (including n < len(P)), when the
\* sender calls send(opcode, P) and a reader with merge_frame = true reads the
\* frames, receive returns Ok with opcode, fin = true and a payload equal to P.
C2_FragmentRoundTrip ==
    (/\ LastFrameRead
     /\ ws.config.auto_fragment_size > 0
     /\ rs.config.merge_frame
     /\ SymmetricPMD
     /\ PassesValidation)
        => /\ result.status = "Ok"
           /\ result.header.code = lastOp.code
           /\ result.header.fin
           /\ result.data = lastOp.payload

InvalidUtf8 == ProtocolError(1007, "InvalidUtf8")

\* PMD on both ends with equal no-context-takeover bits, no fragmentation
CompressedUnfragmented ==
    /\ ws.com.some
    /\ SymmetricPMD
    /\ ws.config.auto_fragment_size = 0

\* C3: with PMD on both ends, equal no-context-takeover bits and
\* auto_fragment_size = 0, over any sequence of data messages sent with send:
\* the receive that reads message i returns, when it returns Ok, its opcode and
\* its payload byte for byte; it returns Err only for a Text payload that fails
\* the UTF-8 check, never because the message could not be inflated; and once
\* all frames are read the inflater's window equals the compressor's.
C3_CompressedRoundTrip ==
    CompressedUnfragmented =>
        /\ LastFrameRead =>
              /\ result.status \in {"Ok", "Err"}
              /\ result.status = "Ok" =>
                    /\ result.header.code = lastOp.code
                    /\ result.header.fin
                    /\ ~result.header.rsv1
                    /\ result.data = lastOp.payload
              /\ result.status = "Err" =>
                    /\ result.err = InvalidUtf8
                    /\ ~PassesValidation
                    /\ rs.config.merge_frame
        /\ stream = <<>> => rs.de.ctx = ws.com.ctx

\* a one-byte message sent as a back-reference into the window left by the
\* message before it, and received intact
C3_Witness ==
    /\ CompressedUnfragmented
    /\ LastFrameRead
    /\ ~ws.com.config.client_no_context_takeover
    /\ Len(lastOp.payload) = 1
    /\ unmask(FrameOf(1)).payload = <<1, 0>>
    /\ FrameOf(1).rsv1
    /\ result.status = "Ok"
    /\ result.data = lastOp.payload

(***************************************************************************)
(* Properties of the read side fed by a raw peer (SpecRead).               *)
(***************************************************************************)
MissInitialFragmentedFrame == ProtocolError(1002, "MissInitialFragmentedFrame")

NotContinueFrameAfterFragmented ==
    ProtocolError(1002, "NotContinueFrameAfterFragmented")

CompressedControlFrame == ProtocolError(1002, "CompressedControlFrame")

\* a turn of receive / receive_mut has just read a frame
FrameRead == rx.frame # NoFrame

\* with merge_frame: a Continue frame read with no fragmented message open
ContinueOutOfOrder ==
    rs.config.merge_frame /\ FrameRead /\ rx.frame.code = "Continue" /\ ~rx.fragmented

\* with merge_frame: a Text/Binary frame read with a fragmented message open
DataOutOfOrder ==
    /\ rs.config.merge_frame /\ FrameRead
    /\ rx.frame.code \in {"Text", "Binary"} /\ rx.fragmented

\* C7 as claimed: with merge_frame, a Continue frame read while fragmented =
\* false makes receive / receive_mut return protocol error 1002
\* MissInitialFragmentedFrame, a Text/Binary frame read while fragmented = true
\* protocol error 1002 NotContinueFrameAfterFragmented, and no message is
\* returned.
C7_OrderingErrors ==
    /\ ContinueOutOfOrder =>
          result.status = "Err" /\ result.err = MissInitialFragmentedFrame
    /\ DataOutOfOrder =>
          result.status = "Err" /\ result.err = NotContinueFrameAfterFragmented

\* receive_one could not inflate the frame read
InflateRefused == rx.frame.rsv1 /\ result.err.kind = "DeCompressFailed"

\* C7, amended: as claimed for every frame without RSV1 and every frame the
\* inflater accepts; a frame with RSV1 that cannot be inflated (no inflater
\* configured, or the inflater refuses the payload) makes the call return
\* DeCompressFailed instead.  In every case the call returns Err and no message.
C7_OrderingErrorsUnlessInflateFails ==
    /\ ContinueOutOfOrder =>
          /\ result.status = "Err"
          /\ result.header = NoHeader /\ result.data = <<>>
          /\ result.err = MissInitialFragmentedFrame \/ InflateRefused
          /\ (rx.frame.rsv1 /\ ~rs.de.some) => InflateRefused
    /\ DataOutOfOrder =>
          /\ result.status = "Err"
          /\ result.header = NoHeader /\ result.data = <<>>
          /\ result.err = NotContinueFrameAfterFragmented \/ InflateRefused
          /\ (rx.frame.rsv1 /\ ~rs.de.some) => InflateRefused

\* a Text frame met by receive_mut in the middle of a fragmented Binary message
C7_Witness ==
    /\ DataOutOfOrder
    /\ rx.in_call
    /\ rx.fn = "receive_mut"
    /\ rx.frame.code = "Text"
    /\ rs.fragmented_type = "Binary"
    /\ result.err = NotContinueFrameAfterFragmented

\* a step in which receive / receive_mut read a frame
ReadStep == rx' # rx /\ rx'.frame # NoFrame

\* C8: a control frame (Close, Ping, Pong) read with RSV1 set makes receive /
\* receive_mut return protocol error 1002 CompressedControlFrame, with or
\* without PMD, with either merge_frame and with or without a fragmented
\* message open; the frame is not inflated, nothing of it is returned and the
\* read state is left as it was.
C8_CompressedControl ==
    [][(/\ ReadStep
        /\ rx'.frame.rsv1
        /\ rx'.frame.fin
        /\ rx'.frame.code \in {"Close", "Ping", "Pong"})
          => /\ result'.status = "Err"
             /\ result'.err = CompressedControlFrame
             /\ result'.header = NoHeader /\ result'.data = <<>>
             /\ rs' = rs]_vars

\* a Ping with RSV1 read in the middle of a fragmented message, PMD negotiated
C8_Witness ==
    /\ FrameRead
    /\ rx.frame.rsv1 /\ rx.frame.code = "Ping" /\ rx.frame.payload # <<>>
    /\ rx.fragmented /\ rx.in_call
    /\ rs.de.some
    /\ result.err = CompressedControlFrame

\* C9: with validate_utf8 = Check or FastFail and merge_frame, receive never
\* returns Ok for a Text message whose assembled payload is not valid UTF-8,
\* be it a single frame or a Text frame followed by Continue frames.
C9_NoInvalidText ==
    (/\ rs.config.merge_frame
     /\ should_check(rs.config.validate_utf8)
     /\ result.status = "Ok"
     /\ result.header.code = "Text")
        => from_utf8_ok(result.data)

\* the frame read is an uncompressed fragment of a Text message whose bytes
\* are not valid UTF-8: the initial Text frame with fin = false, or a Continue
\* frame read by the call that is assembling a Text message
InvalidTextFragment ==
    /\ rs.config.merge_frame /\ FrameRead
    /\ ~rx.frame.rsv1
    /\ ~from_utf8_ok(unmask(rx.frame).payload)
    /\ \/ rx.frame.code = "Text" /\ ~rx.frame.fin /\ ~rx.fragmented
       \/ /\ rx.frame.code = "Continue"
          /\ rx.fragmented /\ rx.in_call /\ rs.fragmented_type = "Text"

\* C10: with FastFail and merge_frame every fragment of a fragmented Text
\* message is validated as it arrives: invalid bytes in the initial Text frame
\* or in any later Continue frame make receive return protocol error 1007
\* InvalidUtf8 at that frame; with Check a non-final fragment with invalid
\* bytes is accepted and receive keeps reading.
C10_FastFailEveryFragment ==
    /\ (InvalidTextFragment /\ is_fast_fail(rs.config.validate_utf8))
          => result.status = "Err" /\ result.err = InvalidUtf8
    /\ (InvalidTextFragment /\ rs.config.validate_utf8 = "Check" /\ ~rx.frame.fin)
          => result.status = "Continue"

\* C11: with merge_frame, for every well-formed fragmented message (an initial
\* Text/Binary frame with fin = false read while fragmented = false, Continue
\* frames, a final Continue frame, control frames anywhere in between) whose
\* assembled bytes pass the reader's validation, the call that reads the final Continue frame returns Ok with
\* the opcode of the initial frame and the concatenation of the payloads of the
\* data frames, and leaves fragmented = false.
C11_MergedMessage ==
    (/\ rs.config.merge_frame
     /\ FrameRead
     /\ rx.msg.done
     /\ (rx.msg.code = "Text" /\ should_check(rs.config.validate_utf8))
            => from_utf8_ok(rx.msg.data))
        => /\ result.status = "Ok"
           /\ result.header.code = rx.msg.code
           /\ result.header.fin
           /\ result.data = rx.msg.data
           /\ ~rs.fragmented

(***************************************************************************)
(* Context takeover (Spec).                                                *)
(***************************************************************************)
\* the no-context-takeover bit of the local role
LocalNoContextTakeover(is_server, config) ==
    IF is_server THEN config.server_no_context_takeover
                 ELSE config.client_no_context_takeover

\* C12: when the local role's no-context-takeover bit is set, after every
\* compressed data message written by send or send_owned_frame the compressor,
\* and after every RSV1 data message read by receive the inflater, is in the
\* state of a freshly made one (empty dictionary).
C12_FreshContext ==
    /\ (ws.com.some /\ LocalNoContextTakeover(ws.is_server, ws.com.config))
          => ws.com.ctx = Handler(ws.com.config).ctx
    /\ (rs.de.some /\ LocalNoContextTakeover(rs.is_server, rs.de.config))
          => rs.de.ctx = Handler(rs.de.config).ctx

\* a compressed two-byte message written by send_owned_frame and read intact,
\* both roles' bits set
C12_Witness ==
    /\ lastOp.op = "send_owned_frame"
    /\ ws.com.some /\ rs.de.some
    /\ LocalNoContextTakeover(ws.is_server, ws.com.config)
    /\ LocalNoContextTakeover(rs.is_server, rs.de.config)
    /\ Len(written) = 1 /\ rx.idx = 1
    /\ rx.frame.rsv1
    /\ result.status = "Ok"
    /\ Len(result.data) = 2

(***************************************************************************)
(* More properties of the read side fed by a raw peer (SpecRead).          *)
(***************************************************************************)
ExtensionNotEnabled ==
    DeCompressFailed("extension not enabled but got compressed frame")

\* what receive_one hands on of the frame about to be read: its payload,
\* inflated with the inflater as it is before the frame when RSV1 is set
PostInflate(frame) ==
    IF frame.rsv1
    THEN de_compress(rs.de.ctx, unmask(frame).payload \o SyncTrailer).out
    ELSE unmask(frame).payload

\* C13: with no inflater configured, a data frame (Text, Binary, Continue)
\* read with RSV1 set makes receive / receive_mut return DeCompressFailed
\* ("extension not enabled but got compressed frame") with either merge_frame;
\* nothing of the frame is returned or kept in the read state.
C13_NoInflater ==
    [][(/\ ReadStep
        /\ ~rs.de.some
        /\ rx'.frame.rsv1
        /\ rx'.frame.code \in {"Text", "Binary", "Continue"})
          => /\ result'.status = "Err"
             /\ result'.err = ExtensionNotEnabled
             /\ result'.header = NoHeader /\ result'.data = <<>>
             /\ rs' = rs]_vars

\* a Continue frame with RSV1 read in the middle of a fragmented message by a
\* reader without PMD
C13_Witness ==
    /\ FrameRead
    /\ ~rs.de.some
    /\ rs.config.merge_frame
    /\ rx.frame.rsv1 /\ rx.frame.code = "Continue" /\ rx.frame.payload # <<>>
    /\ rx.fragmented /\ rx.in_call
    /\ result.err = ExtensionNotEnabled

\* C14: with merge_frame = false every turn of receive / receive_mut ends the
\* call; a call that returns Ok returns the opcode, the fin bit and the
\* (inflated) payload of the one frame it read; the call never returns
\* MissInitialFragmentedFrame or NotContinueFrameAfterFragmented; fragmented
\* and fragmented_type stay as they are.
C14_FramePerCall ==
    [][(ReadStep /\ ~rs.config.merge_frame)
          => /\ result'.status \in {"Ok", "Err"}
             /\ result'.status = "Ok" =>
                   /\ result'.header.code = rx'.frame.code
                   /\ result'.header.fin = rx'.frame.fin
                   /\ result'.data = PostInflate(rx'.frame)
             /\ result'.err \notin {MissInitialFragmentedFrame,
                                    NotContinueFrameAfterFragmented}
             /\ rs'.fragmented = rs.fragmented
             /\ rs'.fragmented_type = rs.fragmented_type]_vars

\* a compressed Continue frame that is not final, returned as it is by
\* receive_mut
C14_Witness ==
    /\ FrameRead
    /\ ~rs.config.merge_frame
    /\ rx.fn = "receive_mut"
    /\ rx.frame.code = "Continue" /\ ~rx.frame.fin /\ rx.frame.rsv1
    /\ result.status = "Ok"
    /\ result.header.code = "Continue" /\ ~result.header.fin
    /\ result.data # <<>>

\* C18: with merge_frame, a control frame (Close, Ping, Pong) read without
\* RSV1, in any read state, ends the call with that frame's header and payload
\* (kept in control_buf) and leaves fragmented, fragmented_type and
\* fragmented_data as they are.
C18_ControlFrame ==
    [][(/\ ReadStep
        /\ rs.config.merge_frame
        /\ ~rx'.frame.rsv1
        /\ rx'.frame.fin
        /\ rx'.frame.code \in {"Close", "Ping", "Pong"})
          => /\ result'.status = "Ok"
             /\ result'.header = SimplifiedHeader(rx'.frame)
             /\ result'.data = unmask(rx'.frame).payload
             /\ rs'.control_buf = result'.data
             /\ rs'.fragmented = rs.fragmented
             /\ rs'.fragmented_type = rs.fragmented_type
             /\ rs'.fragmented_data = rs.fragmented_data]_vars

\* a Ping with a payload read by receive_mut between two fragments
C18_Witness ==
    /\ FrameRead
    /\ rs.config.merge_frame
    /\ rx.fn = "receive_mut"
    /\ rx.frame.code = "Ping" /\ ~rx.frame.rsv1 /\ rx.frame.payload # <<>>
    /\ rx.fragmented /\ rs.fragmented
    /\ rs.fragmented_data # <<>>
    /\ rs.fragmented_data # rx.frame.payload
    /\ result.status = "Ok"

\* C19: every header receive / receive_mut returns in an Ok has rsv1 = false,
\* and a frame read with RSV1 set comes to an Ok only as a data frame the
\* configured inflater has inflated.
C19_Rsv1Cleared ==
    [][(ReadStep /\ result'.status = "Ok")
          => /\ ~result'.header.rsv1
             /\ rx'.frame.rsv1 =>
                   /\ rs.de.some
                   /\ rx'.frame.code \in {"Text", "Binary", "Continue"}
                   /\ de_compress(rs.de.ctx,
                                  unmask(rx'.frame).payload \o SyncTrailer).ok]_vars

\* a compressed final Text frame returned inflated
C19_Witness ==
    /\ FrameRead
    /\ rs.config.merge_frame
    /\ rx.frame.rsv1 /\ rx.frame.code = "Text" /\ rx.frame.fin
    /\ result.status = "Ok"
    /\ ~result.header.rsv1
    /\ result.data # <<>>

(***************************************************************************)
(* More properties of the write side (SpecWrite).                          *)
(***************************************************************************)
\* the last write operation was close(code, reason): send(Close, code ++ reason)
ClosedWith(code) ==
    /\ lastOp.op = "send" /\ lastOp.code = "Close"
    /\ Len(lastOp.payload) >= 2
    /\ SubSeq(lastOp.payload, 1, 2) = <<code \div 256, code % 256>>

\* C15: close(code, reason) writes exactly one frame, with opcode Close,
\* fin = true and RSV1 clear, whose unmasked payload is the code in two
\* big-endian bytes followed by the reason, under every configuration.
C15_CloseFrame ==
    \A code \in CloseCodes :
        ClosedWith(code) =>
            /\ Len(written) = 1
            /\ FrameOf(1).code = "Close"
            /\ FrameOf(1).fin
            /\ ~FrameOf(1).rsv1
            /\ unmask(FrameOf(1)).payload = lastOp.payload

\* the longest payload a control frame may carry (RFC 6455, 5.5)
MaxControlPayload == 125

\* C16: no control frame (Close, Ping, Pong) written through ping, pong, close
\* or send carries more than 125 payload bytes, whatever the caller supplies.
C16_ControlPayloadLimit ==
    lastOp.op = "send" =>
        \A k \in 1..Len(written) :
            ~is_data(FrameOf(k).code) => Len(FrameOf(k).payload) <= MaxControlPayload

\* C21: send_owned_frame writes exactly one frame whose opcode, fin bit and
\* mask key are those of the frame the caller supplied, with compression
\* disabled and with compression enabled; a data frame supplied with
\* fin = false is written with fin = false.
C21_OwnedFrameHeader ==
    lastOp.op = "send_owned_frame" =>
        /\ Len(written) = 1
        /\ FrameOf(1).code = lastOp.code
        /\ FrameOf(1).fin = lastOp.fin
        /\ FrameOf(1).mask = lastOp.mask

\* the protocol errors receive / receive_mut return for a frame
FrameProtocolErrors ==
    {MissInitialFragmentedFrame, NotContinueFrameAfterFragmented, InvalidUtf8,
     CompressedControlFrame}

\* C22 (read side, SpecRead): with merge_frame, a turn of receive / receive_mut
\* that returns a protocol error for the frame it read
\* (MissInitialFragmentedFrame, NotContinueFrameAfterFragmented, InvalidUtf8,
\* CompressedControlFrame) leaves fragmented, fragmented_type and the
\* accumulator as they were before the frame was read: a rejected frame opens
\* no fragmented message.
C22_RejectedFrameLeavesState ==
    [][(/\ ReadStep
        /\ rs.config.merge_frame
        /\ result'.status = "Err"
        /\ result'.err \in FrameProtocolErrors)
          => /\ rs'.fragmented = rs.fragmented
             /\ rs'.fragmented_type = rs.fragmented_type
             /\ rs'.fragmented_data = rs.fragmented_data]_vars

(***************************************************************************)
(* Both ends of one negotiated configuration (Spec).                       *)
(***************************************************************************)
\* C20: for a client and a server built from one negotiated PMD configuration,
\* whatever the two no-context-takeover bits are (equal or not), the reader
\* resets its inflater after a compressed frame exactly when the writer reset
\* its compressor after it: once every frame written is read, the inflater's
\* dictionary equals the peer compressor's, and no frame fails to inflate.
C20_ContextsInStep ==
    (ws.com.some /\ rs.de.some) =>
        /\ stream = <<>> => rs.de.ctx = ws.com.ctx
        /\ result.err.kind # "DeCompressFailed"

(***************************************************************************)
(* Properties of the construction (SpecHandshake).                         *)
(***************************************************************************)
\* the header is a Sec-WebSocket-Extensions header whose value is parsed
IsParsed(h) == to_lowercase(h.name) = ExtensionsHeader /\ h.value.readable

\* some Sec-WebSocket-Extensions header of the handshake does not parse
ParseFails == \E i \in 1..Len(hs.headers) :
                  IsParsed(hs.headers[i]) /\ ~hs.headers[i].value.parse.ok

\* the list of PMD offers the headers h[1..n] yield
RECURSIVE OffersUpTo(_, _)
OffersUpTo(h, n) ==
    IF n = 0 THEN <<>>
    ELSE OffersUpTo(h, n - 1)
            \o (IF IsParsed(h[n]) THEN h[n].value.parse.confs ELSE <<>>)

MinBits(offer) ==
    IF offer.client_max_window_bits < offer.server_max_window_bits
    THEN offer.client_max_window_bits ELSE offer.server_max_window_bits

\* the construction went through the parsing of the headers
HeadersRead == hs.fn = "factory" \/ (hs.fn = "check_fn" /\ hs.key_ok)

\* C17: factory and check_fn, given headers that yield a list of PMD offers,
\* build the codec with the last offer of the list, both window-bits values
\* set to the smaller of that offer's two; given no offer they build a codec
\* without PMD; a Sec-WebSocket-Extensions header that does not parse makes
\* them return HandShakeFailed and no codec.
C17_Construction ==
    HeadersRead =>
        LET offers == OffersUpTo(hs.headers, Len(hs.headers))
            last == offers[Len(offers)]
            used == [last EXCEPT !.client_max_window_bits = MinBits(last),
                                 !.server_max_window_bits = MinBits(last)]
        IN  IF ParseFails
            THEN /\ hs.status = "Err" /\ hs.err = HandShakeFailed
                 /\ ws = IdleWriteState /\ rs = IdleReadState
            ELSE /\ hs.status = "Ok"
                 /\ ws.is_server = (hs.fn = "factory")
                 /\ rs.is_server = (hs.fn = "factory")
                 /\ IF offers = <<>>
                    THEN ws.com = NoHandler /\ rs.de = NoHandler
                    ELSE /\ ws.com = Handler(used)
                         /\ rs.de = Handler(used)

\* a server built from two headers with one offer each: the second offer is
\* used, with both window sizes at its smaller one
C17_Witness ==
    /\ hs.fn = "factory" /\ hs.status = "Ok"
    /\ Len(hs.headers) = 2
    /\ IsParsed(hs.headers[1]) /\ IsParsed(hs.headers[2])
    /\ Len(hs.headers[1].value.parse.confs) = 1
    /\ Len(hs.headers[2].value.parse.confs) = 1
    /\ hs.headers[1].value.parse.confs[1].client_max_window_bits = 9
    /\ hs.headers[2].value.parse.confs[1].server_max_window_bits = 10
    /\ hs.headers[2].value.parse.confs[1].client_max_window_bits = 15
    /\ ws.com.some
    /\ ws.com.config.server_no_context_takeover
    /\ ws.com.config.client_max_window_bits = 10
====
